---- MODULE Spec2Model ----
(***************************************************************************)
(* Task orchestration and crash recovery of the Doc2Book API.              *)
(*                                                                         *)
(* The store is the `tasks` table, the owning project's current_stage, the *)
(* status of its documents, its primary draft and its translation jobs.    *)
(* Request handlers (create/cancel/retry/delete/heartbeat) run in one      *)
(* get_db unit of work each and are one action each.  A background         *)
(* run_task invocation is a process with its own session: every commit of  *)
(* run_task and of the stage handler ends one step, so other actors can    *)
(* interleave exactly at the executor's suspension points.                 *)
(*                                                                         *)
(* Time: the code only ever compares last_heartbeat with utcnow() - 5 min, *)
(* so last_heartbeat is stored as its age in minutes (utcnow() - value),   *)
(* 0 when just stamped, saturating one past the staleness threshold.       *)
(* started_at / completed_at are never compared, only stamped or cleared:  *)
(* they are NULL or STAMPED.                                               *)
(*                                                                         *)
(* Six specifications share the actions:                                   *)
(*   Spec               the life of parse tasks with crash recovery;       *)
(*   PipelineSpec       all seven task types on a project at any stage;    *)
(*   ResubmitSpec       one task cancelled and retried while its runs      *)
(*                      execute;                                           *)
(*   TranslationSpec    the translation fan-out and its background jobs;   *)
(*   TranslateTaskSpec  a translate task beside the jobs of a fan-out;     *)
(*   SchedulingSpec     Spec with start_processing, under weak fairness of *)
(*                      the steps of scheduled runs.                       *)
(***************************************************************************)
EXTENDS Integers, Sequences, FiniteSets, TLC

\* ---------------------------------------------------------------- bounds
MaxTasks == 1
MaxDocs == 1
MaxRequests == 4

\* ------------------------------------------------------ program constants
StaleThreshold == 5
DefaultMaxRetries == 3

NULL == -1
STAMPED == 1
MaxAge == StaleThreshold + 1

TaskIds == 1..MaxTasks

PENDING == "pending"
RUNNING == "running"
COMPLETED == "completed"
FAILED == "failed"
CANCELLED == "cancelled"
TaskStatus == {PENDING, RUNNING, COMPLETED, FAILED, CANCELLED}

\* the task type the lifecycle specification submits
TaskTypes == {"parse"}

\* TaskType
AllTaskTypes ==
    {"parse", "clean", "understand", "structure", "create", "translate",
     "generate"}

\* ProjectStage
ProjectStages ==
    {"upload", "parse", "clean", "understand", "structure", "create",
     "review", "translate", "generate", "completed"}

VARIABLES
    tasks,          \* the tasks table: id -> row, for the ids that exist
    next_id,        \* number of ids handed out so far (uuid4: never reused)
    runs,           \* background run_task invocations of this process
    current_stage,  \* Project.current_stage of the owning project
    ndocs,          \* number of documents of the project
    documents,      \* Document.status of each of them, in load order
    response,       \* outcome of the last request: ok or the HTTPException raised
    requests,       \* number of requests handled so far
    primary_drafts, \* number of BookDraft rows of the project with is_primary
    source_draft,   \* the project's first primary BookDraft: status, chapters
    translation_jobs, \* the translation_jobs table: id -> row, ids 1, 2, ...
    job_runs,       \* background run_translation_job invocations
    book_drafts     \* the translated (non-primary) BookDraft rows: id -> row

\* the state of the translation fan-out
translation == <<source_draft, translation_jobs, job_runs, book_drafts>>

vars == <<tasks, next_id, runs, current_stage, ndocs, documents, response,
          requests, primary_drafts, translation>>

\* ------------------------------------------------------------ the stage table
AUTO_TASK_SEQUENCE(t) ==
    CASE t = "parse" -> "clean"
      [] t = "clean" -> "understand"
      [] t = "understand" -> "structure"
      [] t = "structure" -> "create"
      [] t = "create" -> "none"
      [] OTHER -> "absent"

POST_REVIEW_SEQUENCE(t) ==
    CASE t = "translate" -> "generate"
      [] t = "generate" -> "none"
      [] OTHER -> "absent"

\* {**AUTO_TASK_SEQUENCE, **POST_REVIEW_SEQUENCE}.get(t): "none" is None
TASK_SEQUENCE(t) ==
    IF POST_REVIEW_SEQUENCE(t) # "absent" THEN POST_REVIEW_SEQUENCE(t)
    ELSE IF AUTO_TASK_SEQUENCE(t) # "absent" THEN AUTO_TASK_SEQUENCE(t)
    ELSE "none"

TASK_TO_STAGE(t) == t

\* mutant: a finished create task does not stop at review
NextStage_NoReview(task_type) ==
    IF TASK_SEQUENCE(task_type) # "none" THEN TASK_TO_STAGE(TASK_SEQUENCE(task_type))
    ELSE "completed"

\* run_task's project stage update after a handler returned
NextStage(task_type) ==
    IF TASK_SEQUENCE(task_type) # "none" THEN TASK_TO_STAGE(TASK_SEQUENCE(task_type))
    ELSE IF task_type = "create" THEN "review"
    ELSE "completed"

\* ------------------------------------------------------------------ rows
\* Task(...) as create_task builds it, column defaults filled in
NewTask(task_type) ==
    [ task_type |-> task_type,
      status |-> PENDING,
      progress |-> 0,
      message |-> "waiting",
      started_at |-> NULL,
      completed_at |-> NULL,
      error |-> "none",
      retry_count |-> 0,
      max_retries |-> DefaultMaxRetries,
      last_heartbeat |-> NULL,
      result_data |-> [kind |-> "none"] ]

\* int((i / total) * 100)
Progress(i, total) == (i * 100) \div total

Exists(t) == t \in DOMAIN tasks

\* BookDraft(...) as run_structure_task builds the primary draft: status is
\* the column default, chapters the number of chapters of the list it stores
NewDraft == [status |-> "draft", chapters |-> 0, is_primary |-> TRUE]

\* ------------------------------------------------------------- recovery scan
\* (task.max_retries or 3)
OrDefault(max_retries) ==
    IF max_retries = NULL \/ max_retries = 0 THEN DefaultMaxRetries ELSE max_retries

\* mutant: every running row counts as stale
IsStale_Always(task) == TRUE

\* last_heartbeat is None or last_heartbeat < utcnow() - timedelta(minutes=5)
IsStale(task) ==
    task.last_heartbeat = NULL \/ task.last_heartbeat > StaleThreshold

\* mutant: the re-queue forgets to count the retry
RecoverTask_NoIncrement(task) ==
    IF IsStale(task)
    THEN IF task.retry_count < OrDefault(task.max_retries)
         THEN [task EXCEPT !.status = PENDING,
                           !.message = "auto_retry"]
         ELSE [task EXCEPT !.status = FAILED,
                           !.error = "max_retries_reached",
                           !.completed_at = STAMPED]
    ELSE task

\* mutant: one retry too many (<= for <)
RecoverTask_OffByOne(task) ==
    IF IsStale(task)
    THEN IF task.retry_count <= OrDefault(task.max_retries)
         THEN [task EXCEPT !.status = PENDING,
                           !.retry_count = task.retry_count + 1,
                           !.message = "auto_retry"]
         ELSE [task EXCEPT !.status = FAILED,
                           !.error = "max_retries_reached",
                           !.completed_at = STAMPED]
    ELSE task

\* mutant: the re-queue counts the retry but leaves the row running
RecoverTask_StaysRunning(task) ==
    IF IsStale(task)
    THEN IF task.retry_count < OrDefault(task.max_retries)
         THEN [task EXCEPT !.retry_count = task.retry_count + 1,
                           !.message = "auto_retry"]
         ELSE [task EXCEPT !.status = FAILED,
                           !.error = "max_retries_reached",
                           !.completed_at = STAMPED]
    ELSE task

\* the body of the scan's loop for one running row
RecoverTask(task) ==
    IF IsStale(task)
    THEN IF task.retry_count < OrDefault(task.max_retries)
         THEN [task EXCEPT !.status = PENDING,
                           !.retry_count = task.retry_count + 1,
                           !.message = "auto_retry"]
         ELSE [task EXCEPT !.status = FAILED,
                           !.error = "max_retries_reached",
                           !.completed_at = STAMPED]
    ELSE task

\* recover_interrupted_tasks over the whole table
RecoverInterruptedTasks(tbl) ==
    [t \in DOMAIN tbl |->
        IF tbl[t].status = RUNNING THEN RecoverTask(tbl[t]) ELSE tbl[t]]

Init ==
    /\ tasks = << >>
    /\ next_id = 0
    /\ runs = << >>
    /\ current_stage = "upload"
    /\ ndocs \in 0..MaxDocs
    /\ documents = [k \in 1..ndocs |-> "pending"]
    /\ response = "ok"
    /\ requests = 0
    /\ primary_drafts = 0
    /\ source_draft = NewDraft
    /\ translation_jobs = << >>
    /\ job_runs = << >>
    /\ book_drafts = << >>

\* ------------------------------------------------------- background runs
\* one scheduled run_task(task_id): `seen` is the status the run's session
\* holds for the row (loaded at the start, reloaded by db.refresh); `docs` is
\* the status its session holds for each document its loop has not reached
\* yet (loaded once, never reloaded); `service_available` is what
\* check_health answered; `jobs`, `held` and `completed` are the translate
\* handler's list of pending jobs, the status its session holds for each of
\* them and its count of translated ones; `draft` is the id of the primary
\* draft it loaded before its loop
NewRun(t) ==
    [task_id |-> t, pc |-> "queued", i |-> 0, total |-> 0, seen |-> "none",
     docs |-> << >>, service_available |-> FALSE,
     jobs |-> << >>, held |-> << >>, completed |-> 0, draft |-> NULL]

\* a run that returned (or raised) is gone
Without(rs, r) == SubSeq(rs, 1, r - 1) \o SubSeq(rs, r + 1, Len(rs))

\* every run is scheduled by a request
RunIds == 1..MaxRequests

\* the session flushes a column only when the value set differs from the one
\* it holds
WriteStatus(task, seen, status) ==
    IF seen = status THEN task ELSE [task EXCEPT !.status = status]

\* the same for a document's status
WriteDoc(held, stored, status) == IF held = status THEN stored ELSE status

\* mutant: the executor claims the row without stamping a heartbeat
Claimed_NoHeartbeat(task) ==
    [WriteStatus(task, task.status, RUNNING) EXCEPT !.started_at = STAMPED]

\* run_task marks the row it loaded as running
Claimed(task) ==
    [WriteStatus(task, task.status, RUNNING)
        EXCEPT !.started_at = STAMPED, !.last_heartbeat = 0]

\* run_task's dispatch on task_type, up to the handler's first suspension
\* point: the document loops return at once when there is no document
Dispatch(task_type, total) ==
    CASE task_type = "parse" -> IF total = 0 THEN "finalize" ELSE "health"
      [] task_type = "clean" ->
            IF total = 0 THEN "finalize" ELSE "clean_check"
      [] task_type = "understand" ->
            IF total = 0 THEN "finalize" ELSE "understand_check"
      [] task_type = "create" ->
            IF total = 0 THEN "finalize" ELSE "create_health"
      [] task_type = "structure" -> "structure"
      [] task_type = "translate" -> "translate"
      [] task_type = "generate" -> "generate"

\* run_task up to the dispatch: load the row, mark it running, commit
RunTaskStart(r) ==
    /\ r \in DOMAIN runs
    /\ runs[r].pc = "queued"
    /\ LET t == runs[r].task_id IN
       IF ~Exists(t)
       THEN /\ runs' = Without(runs, r)
            /\ UNCHANGED tasks
       ELSE /\ tasks' = [tasks EXCEPT ![t] = Claimed(tasks[t])]
            /\ runs' = [runs EXCEPT ![r] =
                  [@ EXCEPT !.seen = RUNNING,
                            !.total = ndocs,
                            !.docs = documents,
                            !.pc = Dispatch(tasks[t].task_type, ndocs)]]
    /\ UNCHANGED <<next_id, current_stage, ndocs, documents, translation,
                 primary_drafts, response, requests>>

\* run_parse_task: check_health, and the warning it commits
ParseHealth(r) ==
    /\ r \in DOMAIN runs
    /\ runs[r].pc = "health"
    /\ LET t == runs[r].task_id IN
       \E service_available \in BOOLEAN :
          IF service_available
          THEN /\ runs' = [runs EXCEPT ![r].pc = "check",
                                       ![r].service_available = TRUE]
               /\ UNCHANGED tasks
          ELSE IF Exists(t)
          THEN /\ tasks' = [tasks EXCEPT ![t].message = "basic_mode"]
               /\ runs' = [runs EXCEPT ![r].pc = "check"]
          ELSE /\ runs' = [runs EXCEPT ![r].pc = "except"]
               /\ UNCHANGED tasks
    /\ UNCHANGED <<next_id, current_stage, ndocs, documents, translation,
                 primary_drafts, response, requests>>

\* run_parse_task: the head of one loop iteration (refresh, cancellation
\* check, progress commit), or the final progress commit after the loop
ParseCheck(r) ==
    /\ r \in DOMAIN runs
    /\ runs[r].pc = "check"
    /\ LET t == runs[r].task_id IN
       IF ~Exists(t)
       THEN /\ runs' = [runs EXCEPT ![r].pc = "except"]
            /\ UNCHANGED tasks
       ELSE IF runs[r].i = runs[r].total
       THEN /\ tasks' = [tasks EXCEPT ![t].progress = 100]
            /\ runs' = [runs EXCEPT ![r].pc = "finalize"]
       ELSE IF tasks[t].status = CANCELLED
       THEN /\ runs' = [runs EXCEPT ![r].seen = CANCELLED, ![r].pc = "finalize"]
            /\ UNCHANGED tasks
       ELSE /\ tasks' = [tasks EXCEPT ![t].progress = Progress(runs[r].i, runs[r].total),
                                      ![t].message = "parsing"]
            /\ runs' = [runs EXCEPT ![r].seen = tasks[t].status, ![r].pc = "unit"]
    /\ UNCHANGED <<next_id, current_stage, ndocs, documents, translation,
                 primary_drafts, response, requests>>

\* the status run_parse_task gives a document: the processor's answer when
\* the service is used, the basic mode otherwise
ParsedStatus(service_available, success) ==
    IF service_available /\ ~success THEN "parse_failed" ELSE "parsed"

\* run_parse_task: one document parsed and committed, or an exception
ParseUnit(r) ==
    /\ r \in DOMAIN runs
    /\ runs[r].pc = "unit"
    /\ LET k == runs[r].i + 1 IN
       \E raised \in BOOLEAN, success \in BOOLEAN :
          IF raised
          THEN /\ runs' = [runs EXCEPT ![r].pc = "except"]
               /\ UNCHANGED documents
          ELSE LET status == ParsedStatus(runs[r].service_available, success)
               IN /\ documents' = [documents EXCEPT
                        ![k] = WriteDoc(Head(runs[r].docs), @, status)]
                  /\ runs' = [runs EXCEPT ![r] =
                        [@ EXCEPT !.i = @ + 1, !.pc = "check",
                                  !.docs = Tail(@)]]
    /\ UNCHANGED <<tasks, next_id, current_stage, ndocs, translation,
                 primary_drafts, response, requests>>

\* run_task after the handler returned: mark completed, advance the project
RunTaskFinalize(r) ==
    /\ r \in DOMAIN runs
    /\ runs[r].pc = "finalize"
    /\ LET t == runs[r].task_id IN
       IF ~Exists(t)
       THEN UNCHANGED <<tasks, current_stage>>
       ELSE /\ tasks' = [tasks EXCEPT ![t] =
                  [WriteStatus(tasks[t], runs[r].seen, COMPLETED)
                     EXCEPT !.progress = 100,
                            !.message = "done",
                            !.completed_at = STAMPED,
                            !.last_heartbeat = 0]]
            /\ current_stage' = NextStage(tasks[t].task_type)
    /\ runs' = Without(runs, r)
    /\ UNCHANGED <<next_id, ndocs, documents, translation, primary_drafts, response, requests>>

\* run_task's except block
RunTaskExcept(r) ==
    /\ r \in DOMAIN runs
    /\ runs[r].pc = "except"
    /\ LET t == runs[r].task_id IN
       IF ~Exists(t)
       THEN UNCHANGED tasks
       ELSE tasks' = [tasks EXCEPT ![t] =
                  [WriteStatus(tasks[t], runs[r].seen, FAILED)
                     EXCEPT !.error = "exception",
                            !.message = "failed",
                            !.completed_at = STAMPED]]
    /\ runs' = Without(runs, r)
    /\ UNCHANGED <<next_id, current_stage, ndocs, documents, translation,
                 primary_drafts, response, requests>>

\* --------------------------------------------------------- request handlers
\* one more request is served
Accepting == requests < MaxRequests /\ requests' = requests + 1

\* POST /api/tasks
create_task(task_type) ==
    /\ Accepting
    /\ next_id < MaxTasks
    /\ next_id' = next_id + 1
    /\ tasks' = (next_id' :> NewTask(task_type)) @@ tasks
    /\ runs' = Append(runs, NewRun(next_id'))
    /\ response' = "ok"
    /\ UNCHANGED <<current_stage, ndocs, documents, translation, primary_drafts>>

\* GET /api/tasks/{task_id}
get_task(t) ==
    /\ Accepting
    /\ response' = IF Exists(t) THEN "ok" ELSE "not_found"
    /\ UNCHANGED <<tasks, next_id, runs, current_stage, ndocs, documents, translation,
                   primary_drafts>>

\* mutant: the guard also lets a completed task through
cancel_task_AllowsCompleted(t) ==
    /\ Accepting
    /\ IF ~Exists(t)
       THEN /\ response' = "not_found"
            /\ UNCHANGED tasks
       ELSE IF tasks[t].status \notin {PENDING, RUNNING, COMPLETED}
       THEN /\ response' = "cannot_cancel"
            /\ UNCHANGED tasks
       ELSE /\ tasks' = [tasks EXCEPT ![t].status = CANCELLED,
                                      ![t].message = "cancelled",
                                      ![t].completed_at = STAMPED]
            /\ response' = "ok"
    /\ UNCHANGED <<next_id, runs, current_stage, ndocs, documents, translation, primary_drafts>>

cancel_task(t) ==
    /\ Accepting
    /\ IF ~Exists(t)
       THEN /\ response' = "not_found"
            /\ UNCHANGED tasks
       ELSE IF tasks[t].status \notin {PENDING, RUNNING}
       THEN /\ response' = "cannot_cancel"
            /\ UNCHANGED tasks
       ELSE /\ tasks' = [tasks EXCEPT ![t].status = CANCELLED,
                                      ![t].message = "cancelled",
                                      ![t].completed_at = STAMPED]
            /\ response' = "ok"
    /\ UNCHANGED <<next_id, runs, current_stage, ndocs, documents, translation, primary_drafts>>

\* mutant: a running task is deleted like any other
delete_task_AllowsRunning(t) ==
    /\ Accepting
    /\ IF ~Exists(t)
       THEN /\ response' = "not_found"
            /\ UNCHANGED tasks
       ELSE /\ tasks' = [u \in DOMAIN tasks \ {t} |-> tasks[u]]
            /\ response' = "ok"
    /\ UNCHANGED <<next_id, runs, current_stage, ndocs, documents, translation, primary_drafts>>

\* DELETE /api/tasks/{task_id}
delete_task(t) ==
    /\ Accepting
    /\ IF ~Exists(t)
       THEN /\ response' = "not_found"
            /\ UNCHANGED tasks
       ELSE IF tasks[t].status = RUNNING
       THEN /\ response' = "cannot_delete_running"
            /\ UNCHANGED tasks
       ELSE /\ tasks' = [u \in DOMAIN tasks \ {t} |-> tasks[u]]
            /\ response' = "ok"
    /\ UNCHANGED <<next_id, runs, current_stage, ndocs, documents, translation, primary_drafts>>

\* mutant: the reset forgets the completion time
Retried_KeepsCompletedAt(task) ==
    [task EXCEPT !.status = PENDING,
                 !.error = "none",
                 !.progress = 0,
                 !.retry_count = task.retry_count + 1,
                 !.message = "manual_retry",
                 !.started_at = NULL]

\* retry_task's reset of the row
Retried(task) ==
    [task EXCEPT !.status = PENDING,
                 !.error = "none",
                 !.progress = 0,
                 !.retry_count = task.retry_count + 1,
                 !.message = "manual_retry",
                 !.started_at = NULL,
                 !.completed_at = NULL]

\* mutant: the refusal still counts the retry
retry_task_CountsRefusal(t) ==
    /\ Accepting
    /\ IF ~Exists(t)
       THEN /\ response' = "not_found"
            /\ UNCHANGED <<tasks, runs>>
       ELSE IF tasks[t].status \notin {FAILED, CANCELLED}
       THEN /\ response' = "cannot_retry"
            /\ tasks' = [tasks EXCEPT ![t].retry_count = @ + 1]
            /\ UNCHANGED runs
       ELSE /\ tasks' = [tasks EXCEPT ![t] = Retried(tasks[t])]
            /\ runs' = Append(runs, NewRun(t))
            /\ response' = "ok"
    /\ UNCHANGED <<next_id, current_stage, ndocs, documents, translation, primary_drafts>>

retry_task(t) ==
    /\ Accepting
    /\ IF ~Exists(t)
       THEN /\ response' = "not_found"
            /\ UNCHANGED <<tasks, runs>>
       ELSE IF tasks[t].status \notin {FAILED, CANCELLED}
       THEN /\ response' = "cannot_retry"
            /\ UNCHANGED <<tasks, runs>>
       ELSE /\ tasks' = [tasks EXCEPT ![t] = Retried(tasks[t])]
            /\ runs' = Append(runs, NewRun(t))
            /\ response' = "ok"
    /\ UNCHANGED <<next_id, current_stage, ndocs, documents, translation, primary_drafts>>

update_heartbeat(t) ==
    /\ Accepting
    /\ IF ~Exists(t)
       THEN /\ response' = "not_found"
            /\ UNCHANGED tasks
       ELSE /\ tasks' = [tasks EXCEPT ![t].last_heartbeat = 0]
            /\ response' = "ok"
    /\ UNCHANGED <<next_id, runs, current_stage, ndocs, documents, translation, primary_drafts>>

\* ------------------------------------------------------------ environment
\* the scan tells ages apart only by the threshold: time advances by one
\* step that takes a fresh timestamp past it
TickMinutes == StaleThreshold + 1

Older(ts) ==
    IF ts = NULL THEN NULL
    ELSE IF ts + TickMinutes < MaxAge THEN ts + TickMinutes ELSE MaxAge

\* time passes
Tick ==
    /\ \E t \in DOMAIN tasks : Older(tasks[t].last_heartbeat) # tasks[t].last_heartbeat
    /\ tasks' = [t \in DOMAIN tasks |->
                    [tasks[t] EXCEPT !.last_heartbeat = Older(@)]]
    /\ UNCHANGED <<next_id, runs, current_stage, ndocs, documents, translation,
                 primary_drafts, response, requests>>

\* the process stops (every background run is lost) and starts again:
\* lifespan runs the recovery scan before any request is served
Restart ==
    /\ runs' = << >>
    /\ job_runs' = << >>
    /\ tasks' = RecoverInterruptedTasks(tasks)
    /\ UNCHANGED <<next_id, current_stage, ndocs, documents, primary_drafts, response,
                   requests, source_draft, translation_jobs, book_drafts>>

Next ==
    \/ \E task_type \in TaskTypes : create_task(task_type)
    \/ \E t \in TaskIds : get_task(t)
    \/ \E t \in TaskIds : cancel_task(t)
    \/ \E t \in TaskIds : delete_task(t)
    \/ \E t \in TaskIds : retry_task(t)
    \/ \E t \in TaskIds : update_heartbeat(t)
    \/ \E r \in RunIds : RunTaskStart(r)
    \/ \E r \in RunIds : ParseHealth(r)
    \/ \E r \in RunIds : ParseCheck(r)
    \/ \E r \in RunIds : ParseUnit(r)
    \/ \E r \in RunIds : RunTaskFinalize(r)
    \/ \E r \in RunIds : RunTaskExcept(r)
    \/ Tick
    \/ Restart

Spec == Init /\ [][Next]_vars

\* ------------------------------------------------- the other stage handlers
\* the number of documents a loop passes over before the next one it takes
\* up: those without parsed content (the ones no parse run has written:
\* still pending in the run's session)
Skipped(docs) ==
    CHOOSE n \in 0 .. Len(docs) :
        /\ n = Len(docs) \/ docs[n + 1] # "pending"
        /\ \A m \in 1 .. n : docs[m] = "pending"

\* the next document the loop takes up, counted from 0; total when none is left
NextDoc(run) == run.i + Skipped(run.docs)

\* the head of one iteration of a handler's document loop: documents without
\* content are passed over, then refresh, cancellation check and progress
\* commit for document k; k = total is the final progress commit after the loop
DocLoopCheck(r, pc_check, pc_unit, message, stamps) ==
    /\ r \in DOMAIN runs
    /\ runs[r].pc = pc_check
    /\ LET t == runs[r].task_id
           k == NextDoc(runs[r]) IN
          IF ~Exists(t)
          THEN /\ runs' = [runs EXCEPT ![r].pc = "except"]
               /\ UNCHANGED tasks
          ELSE IF k = runs[r].total
          THEN /\ tasks' = [tasks EXCEPT ![t].progress = 100]
               /\ runs' = [runs EXCEPT ![r].pc = "finalize"]
          ELSE IF tasks[t].status = CANCELLED
          THEN /\ runs' = [runs EXCEPT ![r].seen = CANCELLED, ![r].pc = "finalize"]
               /\ UNCHANGED tasks
          ELSE /\ tasks' = [tasks EXCEPT
                      ![t].progress = Progress(k, runs[r].total),
                      ![t].message = message,
                      ![t].last_heartbeat = IF stamps THEN 0 ELSE @]
               /\ runs' = [runs EXCEPT ![r] =
                     [@ EXCEPT !.i = k,
                               !.docs = SubSeq(@, k - runs[r].i + 1, Len(@)),
                               !.seen = tasks[t].status,
                               !.pc = pc_unit]]
    /\ UNCHANGED <<next_id, current_stage, ndocs, documents, translation, primary_drafts, response,
                   requests>>

\* one document processed and committed with one of the statuses the
\* handler gives, or an exception
DocLoopUnit(r, pc_unit, pc_check, statuses) ==
    /\ r \in DOMAIN runs
    /\ runs[r].pc = pc_unit
    /\ LET k == runs[r].i + 1 IN
       \E raised \in BOOLEAN, status \in statuses :
          IF raised
          THEN /\ runs' = [runs EXCEPT ![r].pc = "except"]
               /\ UNCHANGED documents
          ELSE /\ documents' = [documents EXCEPT
                     ![k] = WriteDoc(Head(runs[r].docs), @, status)]
               /\ runs' = [runs EXCEPT ![r] =
                     [@ EXCEPT !.i = @ + 1, !.pc = pc_check,
                               !.docs = Tail(@)]]
    /\ UNCHANGED <<tasks, next_id, current_stage, ndocs, translation,
                   primary_drafts, response, requests>>

\* run_clean_task
CleanCheck(r) == DocLoopCheck(r, "clean_check", "clean_unit", "cleaning", FALSE)

CleanUnit(r) == DocLoopUnit(r, "clean_unit", "clean_check", {"cleaned"})

\* run_understand_task
UnderstandCheck(r) ==
    DocLoopCheck(r, "understand_check", "understand_unit", "analyzing", FALSE)

UnderstandUnit(r) ==
    DocLoopUnit(r, "understand_unit", "understand_check", {"analyzed"})

\* run_create_task: without the processor service the handler records an
\* error on the task and returns
CreateHealth(r) ==
    /\ r \in DOMAIN runs
    /\ runs[r].pc = "create_health"
    /\ LET t == runs[r].task_id IN
       \E service_available \in BOOLEAN :
          IF service_available
          THEN /\ runs' = [runs EXCEPT ![r].pc = "create_check"]
               /\ UNCHANGED tasks
          ELSE IF Exists(t)
          THEN /\ tasks' = [tasks EXCEPT ![t].message = "service_unavailable",
                                         ![t].error = "processor_unavailable"]
               /\ runs' = [runs EXCEPT ![r].pc = "finalize"]
          ELSE /\ runs' = [runs EXCEPT ![r].pc = "except"]
               /\ UNCHANGED tasks
    /\ UNCHANGED <<next_id, current_stage, ndocs, documents, translation, primary_drafts, response,
                   requests>>

\* run_create_task's loop: the only one that stamps last_heartbeat
CreateCheck(r) == DocLoopCheck(r, "create_check", "create_unit", "rewriting", TRUE)

CreateUnit(r) ==
    DocLoopUnit(r, "create_unit", "create_check", {"rewritten", "rewrite_failed"})

\* the progress a handler without a loop commits at its step i
StepProgress(task_type, i) ==
    IF task_type = "structure"
    THEN CASE i = 0 -> 10 [] i = 1 -> 30 [] i = 2 -> 60 [] OTHER -> 100
    ELSE CASE i = 0 -> 10 [] i = 1 -> 30 [] i = 2 -> 50 [] i = 3 -> 80
           [] OTHER -> 100

\* a progress commit of a handler that never re-reads the task
StepCommit(r, task_type) ==
    LET t == runs[r].task_id IN
    IF ~Exists(t)
    THEN /\ runs' = [runs EXCEPT ![r].pc = "except"]
         /\ UNCHANGED tasks
    ELSE /\ tasks' = [tasks EXCEPT
                ![t].progress = StepProgress(task_type, runs[r].i),
                ![t].message = IF runs[r].i < 4 THEN "working" ELSE @,
                ![t].result_data =
                    IF runs[r].i < 4 THEN @ ELSE [kind |-> task_type]]
         /\ runs' = [runs EXCEPT
                ![r].i = @ + 1,
                ![r].pc = IF runs[r].i < 4 THEN @ ELSE "finalize"]

\* run_structure_task: three progress commits, the commit of a new primary
\* draft, the final commit
StructureStep(r) ==
    /\ r \in DOMAIN runs
    /\ runs[r].pc = "structure"
    /\ IF runs[r].i = 3
       THEN /\ \E raised \in BOOLEAN :
                 IF raised
                 THEN /\ runs' = [runs EXCEPT ![r].pc = "except"]
                      /\ UNCHANGED primary_drafts
                 ELSE /\ runs' = [runs EXCEPT ![r].i = 4]
                      /\ primary_drafts' = primary_drafts + 1
            /\ UNCHANGED tasks
       ELSE /\ StepCommit(r, "structure")
            /\ UNCHANGED primary_drafts
    /\ UNCHANGED <<next_id, current_stage, ndocs, documents, translation, response, requests>>

\* run_generate_task: five progress commits; making the export directory
\* (before the third) and writing the book file (before the fourth) can raise
GenerateStep(r) ==
    /\ r \in DOMAIN runs
    /\ runs[r].pc = "generate"
    /\ \E raised \in BOOLEAN :
          IF raised /\ runs[r].i \in {2, 3}
          THEN /\ runs' = [runs EXCEPT ![r].pc = "except"]
               /\ UNCHANGED tasks
          ELSE StepCommit(r, "generate")
    /\ UNCHANGED <<next_id, current_stage, ndocs, documents, translation, primary_drafts, response,
                   requests>>

\* run_translate_task: the first progress commit
TranslatePrepare(r) ==
    /\ r \in DOMAIN runs
    /\ runs[r].pc = "translate"
    /\ LET t == runs[r].task_id IN
       IF ~Exists(t)
       THEN /\ runs' = [runs EXCEPT ![r].pc = "except"]
            /\ UNCHANGED tasks
       ELSE /\ tasks' = [tasks EXCEPT ![t].progress = 10,
                                      ![t].message = "preparing_translation"]
            /\ runs' = [runs EXCEPT ![r].pc = "translate_draft"]
    /\ UNCHANGED <<next_id, current_stage, ndocs, documents, translation, primary_drafts, response,
                   requests>>

\* the project's pending translation jobs, in table order
PendingJobs ==
    SelectSeq([j \in 1..Len(translation_jobs) |-> j],
              LAMBDA j : translation_jobs[j].status = PENDING)

\* BookDraft.id of a draft of the project other than the one translation
\* requests name
OtherDraftId == 2

\* the row of run_translate_task's query for the project's primary draft, when
\* there is exactly one
PrimaryDraftId == IF source_draft.is_primary THEN 1 ELSE OtherDraftId

\* run_translate_task: the primary draft query (scalar_one_or_none raises on
\* more than one row) and the pending jobs query
TranslateDraft(r) ==
    /\ r \in DOMAIN runs
    /\ runs[r].pc = "translate_draft"
    /\ LET t == runs[r].task_id IN
       IF primary_drafts > 1 \/ ~Exists(t)
       THEN /\ runs' = [runs EXCEPT ![r].pc = "except"]
            /\ UNCHANGED tasks
       ELSE IF primary_drafts = 0
       THEN /\ tasks' = [tasks EXCEPT ![t] =
                  [WriteStatus(tasks[t], runs[r].seen, FAILED)
                     EXCEPT !.message = "no_primary_draft"]]
            /\ runs' = [runs EXCEPT ![r].seen = FAILED, ![r].pc = "finalize"]
       ELSE IF PendingJobs = << >>
       THEN /\ tasks' = [tasks EXCEPT ![t].message = "no_pending_jobs",
                                      ![t].progress = 100]
            /\ runs' = [runs EXCEPT ![r].pc = "finalize"]
       ELSE /\ runs' = [runs EXCEPT ![r].jobs = PendingJobs,
                                    ![r].held = [k \in DOMAIN PendingJobs |-> PENDING],
                                    ![r].total = Len(PendingJobs),
                                    ![r].i = 0,
                                    ![r].completed = 0,
                                    ![r].draft = PrimaryDraftId,
                                    ![r].pc = "translate_job"]
            /\ UNCHANGED tasks
    /\ UNCHANGED <<next_id, current_stage, ndocs, documents, translation, primary_drafts, response,
                   requests>>

\* ------------------------------------------------- project-level requests
\* POST /api/drafts/{id}/approve on a draft of the project
approve_draft ==
    /\ Accepting
    /\ IF primary_drafts = 0
       THEN /\ response' = "not_found"
            /\ UNCHANGED <<current_stage, source_draft>>
       ELSE /\ source_draft' = [source_draft EXCEPT !.status = "approved"]
            /\ current_stage' =
                  IF current_stage = "review" THEN "translate" ELSE current_stage
            /\ response' = "ok"
    /\ UNCHANGED <<tasks, next_id, runs, ndocs, documents, primary_drafts,
                   translation_jobs, job_runs, book_drafts>>

\* POST /api/drafts: a primary draft takes the mark from the drafts that
\* had it, in the same unit of work
create_draft(is_primary) ==
    /\ Accepting
    /\ primary_drafts' = IF is_primary THEN 1 ELSE primary_drafts
    /\ source_draft' =
          IF is_primary /\ primary_drafts > 0
          THEN [source_draft EXCEPT !.is_primary = FALSE]
          ELSE source_draft
    /\ response' = "ok"
    /\ UNCHANGED <<tasks, next_id, runs, current_stage, ndocs, documents,
                   translation_jobs, job_runs, book_drafts>>

\* a project anywhere in its life: update_project stores any stage it is
\* given, its documents are as uploaded or as an earlier parse task left
\* them, an earlier structure task may have left its primary draft, and the
\* records of earlier tasks have been deleted
PipelineInit ==
    /\ tasks = << >>
    /\ next_id = 0
    /\ runs = << >>
    /\ current_stage \in ProjectStages
    /\ ndocs \in 0..MaxDocs
    /\ documents \in [1..ndocs -> {"pending", "parsed"}]
    /\ response = "ok"
    /\ requests = 0
    /\ primary_drafts \in {0, 1}
    /\ source_draft = NewDraft
    /\ translation_jobs = << >>
    /\ job_runs = << >>
    /\ book_drafts = << >>

PipelineNext ==
    \/ \E task_type \in AllTaskTypes : create_task(task_type)
    \/ approve_draft
    \/ \E is_primary \in BOOLEAN : create_draft(is_primary)
    \/ \E r \in RunIds : RunTaskStart(r)
    \/ \E r \in RunIds : ParseHealth(r)
    \/ \E r \in RunIds : ParseCheck(r)
    \/ \E r \in RunIds : ParseUnit(r)
    \/ \E r \in RunIds : CleanCheck(r)
    \/ \E r \in RunIds : CleanUnit(r)
    \/ \E r \in RunIds : UnderstandCheck(r)
    \/ \E r \in RunIds : UnderstandUnit(r)
    \/ \E r \in RunIds : StructureStep(r)
    \/ \E r \in RunIds : CreateHealth(r)
    \/ \E r \in RunIds : CreateCheck(r)
    \/ \E r \in RunIds : CreateUnit(r)
    \/ \E r \in RunIds : TranslatePrepare(r)
    \/ \E r \in RunIds : TranslateDraft(r)
    \/ \E r \in RunIds : GenerateStep(r)
    \/ \E r \in RunIds : RunTaskFinalize(r)
    \/ \E r \in RunIds : RunTaskExcept(r)

PipelineSpec == PipelineInit /\ [][PipelineNext]_vars

\* ------------------------------------------------------- re-submission
\* a task that was cancelled before its background run started: the row as
\* cancel_task left it, the run create_task scheduled still queued
ResubmitInit ==
    /\ tasks = (1 :> [NewTask("parse") EXCEPT !.status = CANCELLED,
                                              !.message = "cancelled",
                                              !.completed_at = STAMPED])
    /\ next_id = 1
    /\ runs = <<NewRun(1)>>
    /\ current_stage = "upload"
    /\ ndocs \in 0..MaxDocs
    /\ documents = [k \in 1..ndocs |-> "pending"]
    /\ response = "ok"
    /\ requests = 0
    /\ primary_drafts = 0
    /\ source_draft = NewDraft
    /\ translation_jobs = << >>
    /\ job_runs = << >>
    /\ book_drafts = << >>

\* the task is cancelled and retried while its runs execute
ResubmitNext ==
    \/ \E t \in TaskIds : cancel_task(t)
    \/ \E t \in TaskIds : retry_task(t)
    \/ \E r \in RunIds : RunTaskStart(r)
    \/ \E r \in RunIds : ParseHealth(r)
    \/ \E r \in RunIds : ParseCheck(r)
    \/ \E r \in RunIds : ParseUnit(r)
    \/ \E r \in RunIds : RunTaskFinalize(r)
    \/ \E r \in RunIds : RunTaskExcept(r)

ResubmitSpec == ResubmitInit /\ [][ResubmitNext]_vars

\* ---------------------------------------------------- translation fan-out
\* The translations router is written against the synchronous Session its
\* handlers declare (db: Session) and its background job opens (SessionLocal:
\* no autoflush, a write is visible to a query once committed).  Its handlers
\* never await between their queries and their commit.

MaxJobs == 2
MaxChapters == 1

\* two of the codes of SUPPORTED_LANGUAGES
SUPPORTED_LANGUAGES == {"en", "ja"}

\* the target_languages lists a request carries ("xx" is no supported code)
TargetLanguageLists ==
    {<<"en">>, <<"ja">>, <<"en", "ja">>, <<"en", "en">>, <<"en", "xx">>}

\* BookDraft.id of the draft requests name as their source
SourceDraftIds == {1}

\* TranslationJob(...) as create_translations builds it
NewJob(source_draft_id, target_language) ==
    [ source_draft_id |-> source_draft_id,
      target_language |-> target_language,
      status |-> PENDING,
      progress |-> 0,
      result_draft_id |-> NULL,
      error |-> "none",
      completed_at |-> NULL ]

\* one scheduled run_translation_job(job_id, source_draft.to_dict()):
\* `chapters` is the chapter list of the dict it was handed
NewJobRun(j, chapters) ==
    [job_id |-> j, pc |-> "queued", i |-> 0, chapters |-> chapters]

\* BookDraft(...) as both executors build the translated draft; `source` is
\* the id of the draft whose title, contents and chapters it was built from
ResultDraft(language, source) ==
    [language |-> language, status |-> "draft", is_primary |-> FALSE,
     source |-> source]

\* create_translations' query for a job in flight on the same triple
ExistingJob(source_draft_id, target_language) ==
    \E j \in DOMAIN translation_jobs :
        /\ translation_jobs[j].source_draft_id = source_draft_id
        /\ translation_jobs[j].target_language = target_language
        /\ translation_jobs[j].status \in {PENDING, RUNNING}

\* the languages create_translations builds a job for: the query runs against
\* the committed table, the jobs added earlier in the loop are not in it yet
LanguagesToCreate(source_draft_id, target_languages) ==
    SelectSeq(target_languages,
              LAMBDA l : ~ExistingJob(source_draft_id, l))

\* POST /api/translations
create_translations(source_draft_id, target_languages) ==
    /\ Accepting
    /\ IF primary_drafts = 0
       THEN /\ response' = "not_found"
            /\ UNCHANGED <<translation_jobs, job_runs>>
       ELSE IF source_draft.status # "approved"
       THEN /\ response' = "not_approved"
            /\ UNCHANGED <<translation_jobs, job_runs>>
       ELSE IF \E k \in DOMAIN target_languages :
                   target_languages[k] \notin SUPPORTED_LANGUAGES
       THEN /\ response' = "unsupported_language"
            /\ UNCHANGED <<translation_jobs, job_runs>>
       ELSE LET new == LanguagesToCreate(source_draft_id, target_languages)
                n == Len(translation_jobs)
            IN /\ n + Len(new) <= MaxJobs
               /\ translation_jobs' = translation_jobs \o
                     [k \in 1..Len(new) |-> NewJob(source_draft_id, new[k])]
               /\ job_runs' = job_runs \o
                     [k \in 1..Len(new) |->
                         NewJobRun(n + k, source_draft.chapters)]
               /\ response' = "ok"
    /\ UNCHANGED <<tasks, next_id, runs, current_stage, ndocs, documents, primary_drafts,
                   source_draft, book_drafts>>

\* mutant: the cancellation reaches every job still in flight
cancel_translation_Siblings(j) ==
    /\ Accepting
    /\ IF j \notin DOMAIN translation_jobs
       THEN /\ response' = "not_found"
            /\ UNCHANGED translation_jobs
       ELSE IF translation_jobs[j].status \notin {PENDING, RUNNING}
       THEN /\ response' = "cannot_cancel"
            /\ UNCHANGED translation_jobs
       ELSE /\ translation_jobs' =
                  [k \in DOMAIN translation_jobs |->
                      IF translation_jobs[k].status \in {PENDING, RUNNING}
                      THEN [translation_jobs[k] EXCEPT !.status = CANCELLED]
                      ELSE translation_jobs[k]]
            /\ response' = "ok"
    /\ UNCHANGED <<tasks, next_id, runs, current_stage, ndocs, documents, primary_drafts,
                   source_draft, job_runs, book_drafts>>

\* POST /api/translations/{job_id}/cancel
cancel_translation(j) ==
    /\ Accepting
    /\ IF j \notin DOMAIN translation_jobs
       THEN /\ response' = "not_found"
            /\ UNCHANGED translation_jobs
       ELSE IF translation_jobs[j].status \notin {PENDING, RUNNING}
       THEN /\ response' = "cannot_cancel"
            /\ UNCHANGED translation_jobs
       ELSE /\ translation_jobs' =
                  [translation_jobs EXCEPT ![j].status = CANCELLED]
            /\ response' = "ok"
    /\ UNCHANGED <<tasks, next_id, runs, current_stage, ndocs, documents, primary_drafts,
                   source_draft, job_runs, book_drafts>>

\* run_translation_job up to the chapter loop: the job is marked running and
\* committed; len() of a draft without a chapter list raises
JobStart(q) ==
    /\ q \in DOMAIN job_runs
    /\ job_runs[q].pc = "queued"
    /\ LET j == job_runs[q].job_id IN
       translation_jobs' = [translation_jobs EXCEPT ![j].status = RUNNING,
                                                    ![j].progress = 0]
    /\ job_runs' = [job_runs EXCEPT ![q].pc =
          IF job_runs[q].chapters = NULL THEN "except" ELSE "chapter"]
    /\ UNCHANGED <<tasks, next_id, runs, current_stage, ndocs, documents, primary_drafts,
                   response, requests, source_draft, book_drafts>>

\* run_translation_job: one chapter translated and its progress committed, or
\* the chapter's exception swallowed and the chapter kept as it was
JobChapter(q) ==
    /\ q \in DOMAIN job_runs
    /\ job_runs[q].pc = "chapter"
    /\ job_runs[q].i < job_runs[q].chapters
    /\ LET j == job_runs[q].job_id IN
       \E failed \in BOOLEAN :
          IF failed
          THEN UNCHANGED translation_jobs
          ELSE translation_jobs' = [translation_jobs EXCEPT ![j].progress =
                  ((job_runs[q].i + 1) * 100) \div job_runs[q].chapters]
    /\ job_runs' = [job_runs EXCEPT ![q].i = @ + 1]
    /\ UNCHANGED <<tasks, next_id, runs, current_stage, ndocs, documents, primary_drafts,
                   response, requests, source_draft, book_drafts>>

\* run_translation_job after the loop: the translated draft and the
\* completed job are committed together
JobFinish(q) ==
    /\ q \in DOMAIN job_runs
    /\ job_runs[q].pc = "chapter"
    /\ job_runs[q].i = job_runs[q].chapters
    /\ LET j == job_runs[q].job_id IN
       /\ book_drafts' = Append(book_drafts,
                                ResultDraft(translation_jobs[j].target_language,
                                            translation_jobs[j].source_draft_id))
       /\ translation_jobs' = [translation_jobs EXCEPT
              ![j].status = COMPLETED,
              ![j].progress = 100,
              ![j].result_draft_id = Len(book_drafts'),
              ![j].completed_at = STAMPED]
    /\ job_runs' = Without(job_runs, q)
    /\ UNCHANGED <<tasks, next_id, runs, current_stage, ndocs, documents, primary_drafts,
                   response, requests, source_draft>>

\* run_translation_job's except block
JobExcept(q) ==
    /\ q \in DOMAIN job_runs
    /\ job_runs[q].pc = "except"
    /\ LET j == job_runs[q].job_id IN
       translation_jobs' = [translation_jobs EXCEPT ![j].status = FAILED,
                                                    ![j].error = "exception"]
    /\ job_runs' = Without(job_runs, q)
    /\ UNCHANGED <<tasks, next_id, runs, current_stage, ndocs, documents, primary_drafts,
                   response, requests, source_draft, book_drafts>>

\* result_data of run_translate_task: the count the loop kept and the
\* languages of the jobs its session holds as completed
TranslateResult(run) ==
    [kind |-> "translate",
     completed |-> run.completed,
     total |-> run.total,
     languages |->
        LET done == SelectSeq([k \in 1..Len(run.jobs) |-> k],
                              LAMBDA k : run.held[k] = COMPLETED)
        IN [k \in 1..Len(done) |->
               translation_jobs[run.jobs[done[k]]].target_language]]

\* run_translate_task: the progress commit at the head of one job's
\* iteration, or the final commit after the loop
TranslateJobProgress(r) ==
    /\ r \in DOMAIN runs
    /\ runs[r].pc = "translate_job"
    /\ LET t == runs[r].task_id IN
       IF ~Exists(t)
       THEN /\ runs' = [runs EXCEPT ![r].pc = "except"]
            /\ UNCHANGED tasks
       ELSE IF runs[r].i = runs[r].total
       THEN /\ tasks' = [tasks EXCEPT ![t].progress = 100,
                                      ![t].message = "translated",
                                      ![t].result_data = TranslateResult(runs[r])]
            /\ runs' = [runs EXCEPT ![r].pc = "finalize"]
       ELSE /\ tasks' = [tasks EXCEPT
                  ![t].progress = (runs[r].completed * 80) \div runs[r].total + 10,
                  ![t].message = "translating"]
            /\ runs' = [runs EXCEPT ![r].pc = "translate_claim"]
    /\ UNCHANGED <<next_id, current_stage, ndocs, documents, translation, primary_drafts,
                   response, requests>>

\* run_translate_task: the job of this iteration is marked running
TranslateJobClaim(r) ==
    /\ r \in DOMAIN runs
    /\ runs[r].pc = "translate_claim"
    /\ LET j == runs[r].jobs[runs[r].i + 1] IN
       translation_jobs' = [translation_jobs EXCEPT ![j].status = RUNNING]
    /\ runs' = [runs EXCEPT ![r].held[runs[r].i + 1] = RUNNING,
                            ![r].pc = "translate_unit"]
    /\ UNCHANGED <<tasks, next_id, current_stage, ndocs, documents, primary_drafts,
                   response, requests, source_draft, job_runs, book_drafts>>

\* what can happen to one job's iteration: it commits, it raises before the
\* count is incremented, or its commit raises after the increment
UnitOutcomes == {"committed", "raised", "commit_raised"}

\* run_translate_task: the job's draft built and committed with the completed
\* job, or the exception of the iteration recorded on the job; the count is
\* incremented before the commit
TranslateJobUnit(r) ==
    /\ r \in DOMAIN runs
    /\ runs[r].pc = "translate_unit"
    /\ LET j == runs[r].jobs[runs[r].i + 1] IN
       \E outcome \in UnitOutcomes :
          IF outcome # "committed"
          THEN /\ translation_jobs' = [translation_jobs EXCEPT
                      ![j].status = FAILED,
                      ![j].error = "exception"]
               /\ runs' = [runs EXCEPT ![r] =
                      [@ EXCEPT !.i = @ + 1,
                                !.held[runs[r].i + 1] = FAILED,
                                !.completed =
                                    IF outcome = "commit_raised" THEN @ + 1 ELSE @,
                                !.pc = "translate_job"]]
               /\ UNCHANGED book_drafts
          ELSE /\ book_drafts' = Append(book_drafts,
                      ResultDraft(translation_jobs[j].target_language,
                                  runs[r].draft))
               /\ translation_jobs' = [translation_jobs EXCEPT
                      ![j].status = COMPLETED,
                      ![j].progress = 100,
                      ![j].result_draft_id = Len(book_drafts'),
                      ![j].completed_at = STAMPED]
               /\ runs' = [runs EXCEPT ![r] =
                      [@ EXCEPT !.i = @ + 1,
                                !.held[runs[r].i + 1] = COMPLETED,
                                !.completed = @ + 1,
                                !.pc = "translate_job"]]
    /\ UNCHANGED <<tasks, next_id, current_stage, ndocs, documents, primary_drafts,
                   response, requests, source_draft, job_runs>>

JobIds == 1..MaxJobs

\* an approved primary draft, with or without a chapter list, in the
\* translate stage: what structure, create and approve_draft leave behind
TranslationInit ==
    /\ tasks = << >>
    /\ next_id = 0
    /\ runs = << >>
    /\ current_stage = "translate"
    /\ ndocs = 0
    /\ documents = << >>
    /\ response = "ok"
    /\ requests = 0
    /\ primary_drafts = 1
    /\ source_draft \in [status : {"draft", "approved"},
                         chapters : {NULL} \cup 0..MaxChapters,
                         is_primary : {TRUE}]
    /\ translation_jobs = << >>
    /\ job_runs = << >>
    /\ book_drafts = << >>

\* the fan-out on its own: requests for translations and their cancellation
\* while the background jobs run
TranslationNext ==
    \/ \E d \in SourceDraftIds, ls \in TargetLanguageLists :
          create_translations(d, ls)
    \/ \E j \in JobIds : cancel_translation(j)
    \/ approve_draft
    \/ \E q \in JobIds : JobStart(q)
    \/ \E q \in JobIds : JobChapter(q)
    \/ \E q \in JobIds : JobFinish(q)
    \/ \E q \in JobIds : JobExcept(q)

TranslationSpec == TranslationInit /\ [][TranslationNext]_vars

\* a request for en and ja on the approved draft (with or without a chapter
\* list) has been served: its two jobs are pending, their background runs
\* scheduled, and three more requests will be served
TranslateTaskInit ==
    /\ tasks = << >>
    /\ next_id = 0
    /\ runs = << >>
    /\ current_stage = "translate"
    /\ ndocs = 0
    /\ documents = << >>
    /\ response = "ok"
    /\ requests = MaxRequests - 3
    /\ primary_drafts = 1
    /\ source_draft \in [status : {"approved"},
                         chapters : {NULL} \cup 0..MaxChapters,
                         is_primary : {TRUE}]
    /\ translation_jobs = <<NewJob(1, "en"), NewJob(1, "ja")>>
    /\ job_runs = <<NewJobRun(1, source_draft.chapters),
                    NewJobRun(2, source_draft.chapters)>>
    /\ book_drafts = << >>

\* a translate task is submitted, and cancelled, while the jobs are in flight
TranslateTaskNext ==
    \/ create_task("translate")
    \/ \E is_primary \in BOOLEAN : create_draft(is_primary)
    \/ \E t \in TaskIds : cancel_task(t)
    \/ \E t \in TaskIds : delete_task(t)
    \/ \E q \in JobIds : JobStart(q)
    \/ \E q \in JobIds : JobChapter(q)
    \/ \E q \in JobIds : JobFinish(q)
    \/ \E q \in JobIds : JobExcept(q)
    \/ \E r \in RunIds : RunTaskStart(r)
    \/ \E r \in RunIds : TranslatePrepare(r)
    \/ \E r \in RunIds : TranslateDraft(r)
    \/ \E r \in RunIds : TranslateJobProgress(r)
    \/ \E r \in RunIds : TranslateJobClaim(r)
    \/ \E r \in RunIds : TranslateJobUnit(r)
    \/ \E r \in RunIds : RunTaskFinalize(r)
    \/ \E r \in RunIds : RunTaskExcept(r)

TranslateTaskSpec == TranslateTaskInit /\ [][TranslateTaskNext]_vars

\* ----------------------------------------------------------- scheduling
\* POST /api/projects/{project_id}/process: a pending parse task is stored
\* and the project put in the parse stage; no run is scheduled for the task
start_processing ==
    /\ Accepting
    /\ IF ndocs = 0
       THEN /\ response' = "no_documents"
            /\ UNCHANGED <<tasks, next_id, current_stage>>
       ELSE /\ next_id < MaxTasks
            /\ next_id' = next_id + 1
            /\ tasks' = (next_id' :> [NewTask("parse") EXCEPT
                                         !.message = "waiting_parse"]) @@ tasks
            /\ current_stage' = "parse"
            /\ response' = "ok"
    /\ UNCHANGED <<runs, ndocs, documents, translation, primary_drafts>>

SchedulingNext == Next \/ start_processing

\* a step of a scheduled background run
RunStep ==
    \E r \in RunIds :
        \/ RunTaskStart(r)
        \/ ParseHealth(r)
        \/ ParseCheck(r)
        \/ ParseUnit(r)
        \/ RunTaskFinalize(r)
        \/ RunTaskExcept(r)

\* the event loop runs every background task it was given: a run that can
\* take a step eventually takes one
SchedulingSpec == Init /\ [][SchedulingNext]_vars /\ WF_vars(RunStep)

\* ===================================================================== claims
StaleRunning(task) ==
    task.status = RUNNING
    /\ (task.last_heartbeat = NULL \/ task.last_heartbeat > StaleThreshold)

\* one stale-recovery cycle of a row: an executor claims it, its heartbeat
\* goes stale, the scan finds it
StaleCycle(task) ==
    RecoverTask([Claimed(task) EXCEPT !.last_heartbeat = MaxAge])

C2_RecoveryDecision ==
    [][Restart =>
        \A t \in DOMAIN tasks :
            StaleRunning(tasks[t]) =>
                IF tasks[t].retry_count < tasks[t].max_retries
                THEN /\ tasks'[t].status = PENDING
                     /\ tasks'[t].retry_count = tasks[t].retry_count + 1
                ELSE /\ tasks'[t].status = FAILED
                     /\ tasks'[t].error # "none"
                     /\ tasks'[t].completed_at # NULL
                     /\ tasks'[t].retry_count = tasks[t].retry_count]_vars

\* the scan has failed a task that had used up its retries
C2_Witness ==
    \E t \in DOMAIN tasks :
        /\ tasks[t].status = FAILED
        /\ tasks[t].error = "max_retries_reached"
        /\ tasks[t].retry_count = tasks[t].max_retries

\* C3: a second recovery scan right after a scan changes nothing.
C3_IdempotentRecovery ==
    [][Restart => RecoverInterruptedTasks(tasks') = tasks']_vars

\* a scan has just re-queued a task: the row is pending and still carries
\* the stale heartbeat, and no run exists
C3_Witness ==
    /\ runs = << >>
    /\ \E t \in DOMAIN tasks :
        /\ tasks[t].status = PENDING
        /\ tasks[t].message = "auto_retry"
        /\ tasks[t].last_heartbeat > StaleThreshold

\* C4: the scan leaves every task that is not running, and every running
\* task whose heartbeat is within the threshold, unchanged in every field.
C4_RecoveryFrame ==
    [][Restart =>
        \A t \in DOMAIN tasks :
            ~StaleRunning(tasks[t]) =>
                t \in DOMAIN tasks' /\ tasks'[t] = tasks[t]]_vars

\* a running task with a fresh heartbeat whose executor was lost in a restart
C4_Witness ==
    /\ runs = << >>
    /\ \E t \in DOMAIN tasks :
        /\ tasks[t].status = RUNNING
        /\ tasks[t].last_heartbeat # NULL
        /\ tasks[t].last_heartbeat <= StaleThreshold

\* the status changes of section 4.2, with the cancellation of a pending task
\* (section 4.4) and the scan's re-queue of a running one (section 4.3)
LegalTransitions ==
    { <<PENDING, RUNNING>>, <<RUNNING, COMPLETED>>, <<RUNNING, FAILED>>,
      <<RUNNING, CANCELLED>>, <<FAILED, PENDING>>, <<CANCELLED, PENDING>>,
      <<PENDING, CANCELLED>>, <<RUNNING, PENDING>> }

\* C5: a task's status changes only along the legal transitions.
C5_StateMachineClosure ==
    [][\A t \in DOMAIN tasks \cap DOMAIN tasks' :
        tasks'[t].status # tasks[t].status =>
            <<tasks[t].status, tasks'[t].status>> \in LegalTransitions]_vars

\* C6: run_task on a task that is not pending changes neither the task nor
\* the project.
C6_DoubleStartPrevention ==
    [][\A r \in DOMAIN runs :
        (/\ RunTaskStart(r)
         /\ Exists(runs[r].task_id)
         /\ tasks[runs[r].task_id].status # PENDING) =>
            tasks' = tasks /\ current_stage' = current_stage]_vars

\* C7: a cancelled task is never overwritten with completed or failed.
C7_CancelNeverLost ==
    [][\A t \in DOMAIN tasks \cap DOMAIN tasks' :
        tasks[t].status = CANCELLED =>
            tasks'[t].status \notin {COMPLETED, FAILED}]_vars

\* a run is active from the moment it has claimed its task until it returns
Active(r) == runs[r].pc # "queued"

\* C8: no two executor runs are active on the same task record.
C8_NoConcurrentRuns ==
    \A r1, r2 \in DOMAIN runs :
        (r1 # r2 /\ Active(r1) /\ Active(r2)) =>
            runs[r1].task_id # runs[r2].task_id

\* C9: CancelTask succeeds exactly on a pending or running task; on any other
\* it answers 400 and leaves the table unchanged.
C9_CancelGuard ==
    [][\A t \in DOMAIN tasks :
        cancel_task(t) =>
            IF tasks[t].status \in {PENDING, RUNNING}
            THEN response' = "ok" /\ tasks'[t].status = CANCELLED
            ELSE response' = "cannot_cancel" /\ tasks' = tasks]_vars

\* a cancel was refused on a finished task
C9_Witness ==
    /\ response = "cannot_cancel"
    /\ \E t \in DOMAIN tasks : tasks[t].status = COMPLETED

\* C10: RetryTask succeeds exactly on a failed or cancelled task; on any other
\* it answers 400, changes no field and schedules no run.
C10_RetryGuard ==
    [][\A t \in DOMAIN tasks :
        retry_task(t) =>
            IF tasks[t].status \in {FAILED, CANCELLED}
            THEN response' = "ok" /\ tasks'[t].status = PENDING
            ELSE /\ response' = "cannot_retry"
                 /\ tasks' = tasks
                 /\ runs' = runs]_vars

\* a retry was refused on a running task
C10_Witness ==
    /\ response = "cannot_retry"
    /\ \E t \in DOMAIN tasks : tasks[t].status = RUNNING

\* C11: a successful RetryTask leaves the task pending with retry_count one
\* higher, progress 0, no error, started_at and completed_at cleared, and
\* queues one new run for it.
C11_RetryReset ==
    [][\A t \in DOMAIN tasks :
        (retry_task(t) /\ tasks[t].status \in {FAILED, CANCELLED}) =>
            /\ tasks'[t].status = PENDING
            /\ tasks'[t].retry_count = tasks[t].retry_count + 1
            /\ tasks'[t].progress = 0
            /\ tasks'[t].error = "none"
            /\ tasks'[t].started_at = NULL
            /\ tasks'[t].completed_at = NULL
            /\ Len(runs') = Len(runs) + 1
            /\ runs'[Len(runs')] = NewRun(t)]_vars

\* a retry was accepted and its run is still queued
C11_Witness ==
    /\ response = "ok"
    /\ \E t \in DOMAIN tasks :
        /\ tasks[t].status = PENDING
        /\ tasks[t].message = "manual_retry"
        /\ tasks[t].retry_count >= 1
        /\ \E r \in DOMAIN runs : runs[r] = NewRun(t)

\* C12: every task has retry_count <= max_retries, whatever recovery scans
\* and RetryTask calls it went through.
C12_RetryBound ==
    \A t \in DOMAIN tasks : tasks[t].retry_count <= tasks[t].max_retries

\* C13: a running task has a last_heartbeat, and while it stays running the
\* heartbeat never moves back: a step either leaves its age to the clock or
\* stamps it anew.
C13_HeartbeatMonotone ==
    [][\A t \in DOMAIN tasks' :
        tasks'[t].status = RUNNING =>
            /\ tasks'[t].last_heartbeat # NULL
            /\ (t \in DOMAIN tasks /\ tasks[t].status = RUNNING) =>
                  IF Tick
                  THEN tasks'[t].last_heartbeat = Older(tasks[t].last_heartbeat)
                  ELSE tasks'[t].last_heartbeat <= tasks[t].last_heartbeat]_vars

\* an external Heartbeat call has just stamped a running task
C13_Witness ==
    /\ response = "ok"
    /\ requests >= 2
    /\ \E t \in DOMAIN tasks :
        /\ tasks[t].status = RUNNING
        /\ tasks[t].last_heartbeat = 0
        /\ tasks[t].retry_count = 0
        /\ tasks[t].completed_at = NULL

\* C14: completed_at is set exactly on completed, failed and cancelled tasks.
C14_CompletedAtIffTerminal ==
    \A t \in DOMAIN tasks :
        (tasks[t].completed_at # NULL) <=>
            (tasks[t].status \in {COMPLETED, FAILED, CANCELLED})

\* C15: a task carries an error exactly when its status is failed.
C15_ErrorIffFailed ==
    \A t \in DOMAIN tasks :
        (tasks[t].error # "none") <=> (tasks[t].status = FAILED)

\* the run that is finalizing task t
Finalizing(r, t) ==
    /\ r \in DOMAIN runs
    /\ runs[r].task_id = t
    /\ RunTaskFinalize(r)

\* C16: a task completion changes current_stage only when the task is the
\* one for the project's current stage (the parse task of a project still in
\* upload counted as such).
C16_StageMonotone ==
    [][\A t \in DOMAIN tasks : \A r \in RunIds :
        Finalizing(r, t) =>
            \/ current_stage' = current_stage
            \/ current_stage = TASK_TO_STAGE(tasks[t].task_type)
            \/ current_stage = "upload" /\ tasks[t].task_type = "parse"]_vars

\* the successor table as the specification states it
C17_Successor(task_type) ==
    CASE task_type = "parse" -> "clean"
      [] task_type = "clean" -> "understand"
      [] task_type = "understand" -> "structure"
      [] task_type = "structure" -> "create"
      [] task_type = "create" -> "review"
      [] task_type = "translate" -> "generate"
      [] task_type = "generate" -> "completed"

C18_ReviewGate ==
    [][/\ \A t \in DOMAIN tasks : \A r \in RunIds :
            (Finalizing(r, t) /\ tasks[t].task_type = "create") =>
                current_stage' = "review"
       /\ (current_stage = "review"
             /\ current_stage' \in {"translate", "generate", "completed"}) =>
                approve_draft /\ current_stage' = "translate"]_vars

\* C19: the step that completes a task sets status completed, progress 100
\* and completed_at together with the project's stage advancement, so a
\* completed task is never seen with the project still in the stage it was
\* in before.
C19_AtomicFinalization ==
    [][/\ \A t \in DOMAIN tasks : \A r \in RunIds :
            Finalizing(r, t) =>
                /\ tasks'[t].status = COMPLETED
                /\ tasks'[t].progress = 100
                /\ tasks'[t].completed_at # NULL
                /\ current_stage' = C17_Successor(tasks[t].task_type)
       /\ \A t \in DOMAIN tasks' :
            tasks'[t].status = COMPLETED => current_stage' # "upload"]_vars

\* the run that is in run_task's except block for task t
Failing(r, t) ==
    /\ r \in DOMAIN runs
    /\ runs[r].task_id = t
    /\ RunTaskExcept(r)

\* C20: when the handler raised, the task ends failed with the error text
\* and completed_at set, and current_stage is unchanged.
C20_HandlerException ==
    [][\A t \in DOMAIN tasks : \A r \in RunIds :
        Failing(r, t) =>
            /\ tasks'[t].status = FAILED
            /\ tasks'[t].error # "none"
            /\ tasks'[t].completed_at # NULL
            /\ current_stage' = current_stage]_vars

C22_Wanted(d, ls) ==
    {l \in SUPPORTED_LANGUAGES :
        (\E k \in DOMAIN ls : ls[k] = l) /\ ~ExistingJob(d, l)}

\* C22: a request on an approved draft creates exactly one pending job for
\* each supported language it names that is not covered yet, and none for
\* any other language.
C22_FanoutCreation ==
    [][\A d \in SourceDraftIds, ls \in TargetLanguageLists :
          ( /\ create_translations(d, ls)
            /\ primary_drafts > 0
            /\ source_draft.status = "approved" )
          => /\ Len(translation_jobs') =
                   Len(translation_jobs) + Cardinality(C22_Wanted(d, ls))
             /\ \A l \in C22_Wanted(d, ls) :
                   \E j \in DOMAIN translation_jobs' :
                      /\ j > Len(translation_jobs)
                      /\ translation_jobs'[j] = NewJob(d, l)]_vars

C25_EmptyParse ==
    [][\A r \in RunIds, t \in TaskIds :
          ( /\ Finalizing(r, t)
            /\ Exists(t)
            /\ tasks[t].task_type = "parse"
            /\ runs[r].total = 0 )
          => /\ tasks'[t].status = COMPLETED
             /\ tasks'[t].progress = 100
             /\ tasks'[t].message = "no_documents"]_vars

\* C26: deleting a running task is refused and changes nothing; deleting a
\* task in any other status removes its row and only its row; the id of a
\* deleted task stays absent, and reading, cancelling, retrying or
\* heartbeating it is answered not found and changes nothing.
C26_DeleteGuard ==
    [][\A t \in TaskIds :
          /\ (delete_task(t) /\ Exists(t)) =>
                IF tasks[t].status = RUNNING
                THEN response' = "cannot_delete_running" /\ tasks' = tasks
                ELSE /\ response' = "ok"
                     /\ DOMAIN tasks' = DOMAIN tasks \ {t}
                     /\ \A u \in DOMAIN tasks' : tasks'[u] = tasks[u]
          /\ (t <= next_id /\ ~Exists(t)) =>
                /\ t \notin DOMAIN tasks'
                /\ ( get_task(t) \/ cancel_task(t) \/ retry_task(t)
                     \/ update_heartbeat(t) )
                   => /\ response' = "not_found"
                      /\ tasks' = tasks
                      /\ runs' = runs]_vars

\* a task was deleted and a later request for its id was answered not found
C26_Witness ==
    \E t \in TaskIds :
        /\ t <= next_id
        /\ ~Exists(t)
        /\ response = "not_found"

\* C27: a task's progress stays within 0..100 and no step lowers it except
\* retry_task, which resets it to 0.
C27_ProgressMonotone ==
    [][\A t \in TaskIds :
          (Exists(t) /\ t \in DOMAIN tasks') =>
             /\ tasks'[t].progress \in 0..100
             /\ tasks'[t].progress < tasks[t].progress =>
                   (retry_task(t) /\ tasks'[t].progress = 0)]_vars

\* run r's handler starts a unit of work in this step: a document of the
\* parse, clean, understand or create loop, or a job of the translate loop
UnitStarted(r) ==
    \/ ParseCheck(r) /\ runs'[r].pc = "unit"
    \/ CleanCheck(r) /\ runs'[r].pc = "clean_unit"
    \/ UnderstandCheck(r) /\ runs'[r].pc = "understand_unit"
    \/ CreateCheck(r) /\ runs'[r].pc = "create_unit"
    \/ TranslateJobClaim(r)

\* C28: a handler that takes up a unit of work has refreshed last_heartbeat:
\* the task's heartbeat is fresh when the unit starts.
C28_HeartbeatPerUnit ==
    [][\A r \in RunIds :
          (UnitStarted(r) /\ runs[r].task_id \in DOMAIN tasks')
             => tasks'[runs[r].task_id].last_heartbeat = 0]_vars

PostStageStatus(pc) ==
    CASE pc = "unit" -> "parsed"
      [] pc = "understand_unit" -> "analyzed"
      [] pc = "clean_unit" -> "cleaned"
      [] pc = "create_unit" -> "rewritten"
      [] OTHER -> "none"

\* run r processes the document its loop is at and commits it
ProcessesDocument(r) ==
    /\ PostStageStatus(runs[r].pc) # "none"
    /\ Len(runs') = Len(runs)
    /\ runs'[r].task_id = runs[r].task_id
    /\ runs'[r].i = runs[r].i + 1

\* C30: a stage handler that is entered again (after a retry or a recovery)
\* does not process a document that is already in the stage's post-stage
\* status, in the database and in the list the run loaded: the document's
\* stored status and output are left as they are.
C30_DocumentIdempotence ==
    [][\A r \in DOMAIN runs :
          ProcessesDocument(r) =>
              ~ /\ documents[runs[r].i + 1] = PostStageStatus(runs[r].pc)
                /\ Head(runs[r].docs) = PostStageStatus(runs[r].pc)]_vars

\* the progress of a job whose run has processed `done` of its units, the
\* metadata counted as one unit beside the chapters
UnitProgress(done, chapters) == (done * 100) \div (chapters + 1)

EndedCompleted(run, jobs) ==
    SelectSeq([k \in 1..Len(run.jobs) |-> k],
              LAMBDA k : jobs[run.jobs[k]].status = COMPLETED)

\* run r of the translate handler commits its summary
WritesSummary(r) ==
    /\ runs[r].pc = "translate_job"
    /\ Len(runs') = Len(runs)
    /\ runs'[r].task_id = runs[r].task_id
    /\ runs'[r].pc = "finalize"

Returns(r) ==
    /\ runs[r].pc \in {"finalize", "except"}
    /\ runs' = Without(runs, r)

\* C33: a task cancelled while it was running never changes the stage of its
\* project: once cancel_task has succeeded on it, no later step of its
\* executor advances current_stage.
C33_CancelledKeepsStage ==
    [][\A r \in DOMAIN runs :
          (/\ Returns(r)
           /\ Exists(runs[r].task_id)
           /\ tasks[runs[r].task_id].status = CANCELLED)
              => current_stage' = current_stage]_vars

\* C34: a translate task run for a project without a primary draft ends
\* failed, never completed, and does not advance the project's stage.
C34_NoPrimaryDraftFails ==
    [][\A r \in DOMAIN runs :
          (/\ Returns(r)
           /\ Exists(runs[r].task_id)
           /\ tasks[runs[r].task_id].task_type = "translate"
           /\ tasks[runs[r].task_id].message = "no_primary_draft")
              => /\ tasks'[runs[r].task_id].status = FAILED
                 /\ current_stage' = current_stage]_vars

\* C35: every task in status pending is eventually claimed by an executor
\* (running) unless it is cancelled or deleted first, whether it was created
\* by create_task or start_processing or reset to pending by the recovery
\* scan.
C35_PendingEventuallyClaimed ==
    \A t \in TaskIds :
        (Exists(t) /\ tasks[t].status = PENDING)
            ~> (~Exists(t) \/ tasks[t].status \in {RUNNING, CANCELLED})

\* C36: a project has at most one BookDraft with is_primary = true in every
\* reachable state, also after a structure task has run more than once for
\* it and after create_draft with is_primary.
C36_OnePrimaryDraft == primary_drafts <= 1

\* the result drafts in the language of job j
DraftsFor(j) ==
    {d \in DOMAIN book_drafts :
        book_drafts[d].language = translation_jobs[j].target_language}

\* job j is the only job of its language
OnlyJobOfLanguage(j) ==
    \A k \in DOMAIN translation_jobs :
        translation_jobs[k].target_language = translation_jobs[j].target_language
            => k = j

C39_NoDeleteInFlight ==
    [][\A t \in DOMAIN tasks :
          t \notin DOMAIN tasks' =>
              \A r \in DOMAIN runs :
                  runs[r].task_id = t => runs[r].pc = "queued"]_vars


====
